---------------------------- MODULE Spec2Model ----------------------------
(***************************************************************************)
(* bexpand: bash-style brace expansion.                                    *)
(*                                                                         *)
(*   src/src/sequence.rs  the range engine (Sequence / SequenceIterator)   *)
(*   src/src/parser.rs    the nom grammar (expression, list, sequence ...) *)
(*   src/src/lib.rs       the tree (Part, List, Sequence, Expression), its *)
(*                        iterators and its Display implementations        *)
(*                                                                         *)
(* Text is a sequence of characters and a character is its Unicode code    *)
(* point.  An Option<T> is <<>> (None) or <<v>> (Some(v)).  A Result item  *)
(* is [ok |-> TRUE, s |-> text] or [ok |-> FALSE, s |-> <<>>].             *)
(***************************************************************************)
EXTENDS Integers, Sequences, FiniteSets, TLC

VARIABLES
    mode,     \* "expr": an Expression is parsed and used; "seq": a Sequence<T> is used
    input,    \* the &str handed to Expression::try_from
    pc,       \* position of the caller: "start", "parsed", "failed", "iter", "end"
    expr,     \* Result of try_from: <<>> before / on error, <<Expression>> on success
    shown,    \* Option: the String written by Display for the parsed Expression
    iter,     \* the ExpressionIterator (MultiProduct<PartIterator>)
    out,      \* the items ExpressionIterator::next has returned so far
    sseq,     \* the sequence::Sequence<T> under iteration
    sit,      \* Option: its sequence::SequenceIterator<T>
    sout,     \* the items SequenceIterator::next has returned so far
    sended    \* number of times SequenceIterator::next has returned None

vars == <<mode, input, pc, expr, shown, iter, out, sseq, sit, sout, sended>>

-----------------------------------------------------------------------------
(* Bounds of the model.                                                    *)

\* The i64 / u64 of the program, kept as a two's complement width TLC can hold.
I64Bits == 24
\* The u32 of the program (wide enough for every code point up to 0x10FFFF).
U32Bits == 21
\* Endpoints of the integer sequences drawn by Init lie in -MaxAbs..MaxAbs
\* (and next to the ends of the integer type).
MaxAbs == 3
\* Steps 1..MaxStep (and the largest step of the type).
MaxStep == 3
\* Sequences drawn by Init have at most this many positions between their ends.
MaxItems == 7
\* Inputs are the corpus, and every text of up to MaxLen characters of Alphabet.
MaxLen == 3
\* ... and every concatenation of up to MaxSegs segments of SegmentPool.
MaxSegs == 2

I64_MAX == 2^(I64Bits - 1) - 1
I64_MIN == -(2^(I64Bits - 1))
U64_MAX == 2^I64Bits - 1
U32_MAX == 2^U32Bits - 1

-----------------------------------------------------------------------------
(* Characters.                                                             *)

Ascii ==
    ("{" :> 123) @@ ("}" :> 125) @@ ("," :> 44) @@ ("\\" :> 92) @@ ("." :> 46)
    @@ ("=" :> 61) @@ ("-" :> 45) @@ ("+" :> 43) @@ ("|" :> 124)
    @@ ("0" :> 48) @@ ("1" :> 49) @@ ("2" :> 50) @@ ("3" :> 51) @@ ("4" :> 52)
    @@ ("5" :> 53) @@ ("6" :> 54) @@ ("7" :> 55) @@ ("8" :> 56) @@ ("9" :> 57)
    @@ ("a" :> 97) @@ ("b" :> 98) @@ ("c" :> 99) @@ ("d" :> 100) @@ ("e" :> 101)
    @@ ("f" :> 102) @@ ("g" :> 103) @@ ("h" :> 104) @@ ("i" :> 105)
    @@ ("j" :> 106) @@ ("k" :> 107) @@ ("l" :> 108) @@ ("m" :> 109)
    @@ ("n" :> 110) @@ ("o" :> 111) @@ ("p" :> 112) @@ ("q" :> 113)
    @@ ("r" :> 114) @@ ("s" :> 115) @@ ("x" :> 120) @@ ("y" :> 121)
    @@ ("z" :> 122)
    \* the last scalar value below and the first above the surrogate block
    @@ ("D7FF" :> 55295) @@ ("E000" :> 57344)

\* The text whose characters are named by the tuple t.
Str(t) == [i \in 1..Len(t) |-> Ascii[t[i]]]
Chr(c) == Ascii[c]

Drop(s, n) == SubSeq(s, n + 1, Len(s))
Take(s, n) == SubSeq(s, 1, n)
Contains(set, c) == \E i \in 1..Len(set) : set[i] = c

Max(a, b) == IF a >= b THEN a ELSE b
Min(a, b) == IF a <= b THEN a ELSE b
Abs(a) == IF a < 0 THEN -a ELSE a

RECURSIVE Concat(_)
Concat(ss) == IF ss = <<>> THEN <<>> ELSE Head(ss) \o Concat(Tail(ss))

-----------------------------------------------------------------------------
(* sequence.rs: the range engine.                                          *)

IsSurrogate(u) == 55296 <= u /\ u <= 57343

\* Faulty variant of checked_add: the sum wraps around the type.
checked_add_wrapping(kind, a, rhs) ==
    IF kind = "i64" THEN <<((a + rhs - I64_MIN) % (U64_MAX + 1)) + I64_MIN>>
    ELSE <<(a + rhs) % (U32_MAX + 1)>>

\* impl CheckedAddSub for i64 / for u32 (the proxy of char).
checked_add(kind, a, rhs) ==
    IF a + rhs > (IF kind = "i64" THEN I64_MAX ELSE U32_MAX) THEN <<>> ELSE <<a + rhs>>

checked_sub(kind, a, rhs) ==
    IF a - rhs < (IF kind = "i64" THEN I64_MIN ELSE 0) THEN <<>> ELSE <<a - rhs>>

\* <T::Proxy as TryInto<T>>::try_into: i64 -> i64 never fails; u32 -> char
\* fails on a surrogate and above char::MAX.
try_into(kind, v) ==
    IF kind = "char" /\ (IsSurrogate(v) \/ v > 1114111)
    THEN [ok |-> FALSE, v |-> 0]
    ELSE [ok |-> TRUE, v |-> v]

\* impl IntoIterator for Sequence<T>.
Sequence_into_iter(s) ==
    [kind |-> s.kind, next |-> <<s.start>>, end |-> s.end, incr |-> s.incr]

\* Option::filter
OptFilterLe(o, e) == IF o # <<>> /\ o[1] <= e THEN o ELSE <<>>
OptFilterGe(o, e) == IF o # <<>> /\ o[1] >= e THEN o ELSE <<>>

\* Faulty variant of SequenceIterator_advance: no next position is computed
\* when the conversion of the current one fails.
SequenceIterator_advance_stuck(it) ==
    IF it.next = <<>> THEN it
    ELSE LET n == it.next[1] IN
         [it EXCEPT !.next =
            IF ~try_into(it.kind, n).ok THEN <<>>
            ELSE IF n < it.end
            THEN OptFilterLe(checked_add(it.kind, n, it.incr), it.end)
            ELSE IF n = it.end THEN <<>>
            ELSE OptFilterGe(checked_sub(it.kind, n, it.incr), it.end)]

\* Faulty variant of SequenceIterator_advance: a step past the end is clamped
\* to land on the end.
SequenceIterator_advance_clamp(it) ==
    IF it.next = <<>> THEN it
    ELSE LET n == it.next[1] IN
         [it EXCEPT !.next =
            IF n < it.end
            THEN LET a == checked_add(it.kind, n, it.incr) IN
                 IF a # <<>> /\ a[1] > it.end THEN <<it.end>> ELSE a
            ELSE IF n = it.end THEN <<>>
            ELSE LET a == checked_sub(it.kind, n, it.incr) IN
                 IF a # <<>> /\ a[1] < it.end THEN <<it.end>> ELSE a]

\* SequenceIterator::next, the iterator it leaves behind.
SequenceIterator_advance(it) ==
    IF it.next = <<>> THEN it
    ELSE LET n == it.next[1] IN
         [it EXCEPT !.next =
            IF n < it.end
            THEN OptFilterLe(checked_add(it.kind, n, it.incr), it.end)
            ELSE IF n = it.end THEN <<>>
            ELSE OptFilterGe(checked_sub(it.kind, n, it.incr), it.end)]

\* SequenceIterator::next, the value it returns: None, or Some(try_into(next)).
SequenceIterator_item(it) ==
    IF it.next = <<>> THEN <<>> ELSE <<try_into(it.kind, it.next[1])>>

\* The items a SequenceIterator yields until its first None.
RECURSIVE SequenceIterator_collect(_)
SequenceIterator_collect(it) ==
    IF it.next = <<>> THEN <<>>
    ELSE SequenceIterator_item(it) \o SequenceIterator_collect(SequenceIterator_advance(it))

-----------------------------------------------------------------------------
(* parser.rs: the nom combinators the grammar uses.  A parser maps an input *)
(* to [ok, rest, val]; every failure is a recoverable nom::Err::Error (the *)
(* grammar uses no cut), which alt, opt, many0 and separated_list0 absorb. *)

Ok(rest, val) == [ok |-> TRUE, rest |-> rest, val |-> val]
Err == [ok |-> FALSE, rest |-> <<>>, val |-> <<>>]

BACKSLASH == Chr("\\")
Digits == Str(<<"0", "1", "2", "3", "4", "5", "6", "7", "8", "9">>)
IsDigit(c) == Contains(Digits, c)
DigitVal(c) == c - Chr("0")

tag(t, i) ==
    IF Len(i) >= Len(t) /\ Take(i, Len(t)) = t THEN Ok(Drop(i, Len(t)), t) ELSE Err

opt(r, i) == IF r.ok THEN Ok(r.rest, <<r.val>>) ELSE Ok(i, <<>>)

\* alt((a, b)): the first parser's success, or else the second's result.
alt(a, b) == IF a.ok THEN a ELSE b

Plain(s) == [kind |-> "Plain", text |-> s]

\* verify(parser, |s| !s.is_empty()) wrapped in Part::Plain.
verify_not_empty(r) ==
    IF r.ok /\ r.val # <<>> THEN Ok(r.rest, Plain(r.val)) ELSE Err

\* Length of the longest prefix of i holding none of chars (is_not, none_of).
RunOutside(chars, i) ==
    CHOOSE n \in 0..Len(i) :
        /\ \A k \in 1..n : ~Contains(chars, i[k])
        /\ n = Len(i) \/ Contains(chars, i[n + 1])

\* Faulty variant of escaped_from: any character may follow a backslash.
RECURSIVE escaped_from_any(_, _, _)
escaped_from_any(chars, i, at) ==
    IF at >= Len(i) THEN <<Len(i)>>
    ELSE LET n == RunOutside(chars, Drop(i, at)) IN
         IF n > 0
         THEN IF at + n = Len(i) THEN <<Len(i)>> ELSE escaped_from_any(chars, i, at + n)
         ELSE IF i[at + 1] = BACKSLASH
         THEN IF at + 1 >= Len(i) THEN <<>>
              ELSE IF at + 2 = Len(i) THEN <<Len(i)>>
              ELSE escaped_from_any(chars, i, at + 2)
         ELSE IF at = 0 THEN <<>> ELSE <<at>>

\* nom::bytes::complete::escaped(is_not(chars), '\\', one_of(chars)), from
\* offset at of i: the number of characters it consumes, or <<>> on error.
RECURSIVE escaped_from(_, _, _)
escaped_from(chars, i, at) ==
    IF at >= Len(i) THEN <<Len(i)>>
    ELSE LET n == RunOutside(chars, Drop(i, at)) IN
         IF n > 0
         THEN IF at + n = Len(i) THEN <<Len(i)>> ELSE escaped_from(chars, i, at + n)
         ELSE IF i[at + 1] = BACKSLASH
         THEN IF at + 1 >= Len(i) THEN <<>>
              ELSE IF Contains(chars, i[at + 2])
              THEN IF at + 2 = Len(i) THEN <<Len(i)>>
                   ELSE escaped_from(chars, i, at + 2)
              ELSE <<>>
         ELSE IF at = 0 THEN <<>> ELSE <<at>>

\* plain_str, lines 21-36: the matched text with each backslash dropped and
\* the character after it kept.
RECURSIVE Unescape(_)
Unescape(s) ==
    IF s = <<>> THEN <<>>
    ELSE IF Head(s) = BACKSLASH THEN <<s[2]>> \o Unescape(Drop(s, 2))
    ELSE <<Head(s)>> \o Unescape(Tail(s))

\* Faulty variant of plain_str: the matched text is kept as written.
plain_str_raw(escape_chars, i) ==
    LET n == escaped_from(escape_chars, i, 0) IN
    IF n = <<>> THEN Err ELSE Ok(Drop(i, n[1]), Take(i, n[1]))

\* plain_str, lines 21-36, on the n characters escaped(..) matched.
plain_str_built(i, n) ==
    IF n = <<>> THEN Err ELSE Ok(Drop(i, n[1]), Unescape(Take(i, n[1])))

plain_str(escape_chars, i) == plain_str_built(i, escaped_from(escape_chars, i, 0))

TopEscapes == Str(<<"\\", "{", "}">>)
ListEscapes == Str(<<"\\", "{", "}", ",">>)

\* Faulty variant of top_plain: an opening brace nothing else matched is
\* taken as a literal character.
top_plain_lenient(i) ==
    alt(verify_not_empty(plain_str(TopEscapes, i)),
        IF i # <<>> /\ i[1] = Chr("{") THEN Ok(Tail(i), Plain(<<i[1]>>)) ELSE Err)

top_plain(i) == verify_not_empty(plain_str(TopEscapes, i))

list_plain(i) == verify_not_empty(plain_str(ListEscapes, i))

\* Faulty variant of empty_plain: the empty member is not matched, so that {}
\* is a list of no member.
empty_plain_fails(i) == Err

empty_plain(i) == Ok(i, Plain(<<>>))

sequence_char(i) ==
    IF i = <<>> \/ Contains(Str(<<".", "{", "}", ",">>), i[1]) THEN Err
    ELSE IF i[1] = BACKSLASH
    THEN IF Len(i) < 2 THEN Err ELSE Ok(Drop(i, 2), i[2])
    ELSE Ok(Tail(i), i[1])

\* nom::character::complete::{u64, u32}: one or more digits, an error when the
\* value overflows the type.  acc is the value read so far.
RECURSIVE uint_from(_, _, _, _)
uint_from(max, i, acc, seen) ==
    IF i = <<>> \/ ~IsDigit(i[1])
    THEN IF seen THEN Ok(i, acc) ELSE Err
    ELSE IF acc * 10 + DigitVal(i[1]) > max THEN Err
    ELSE uint_from(max, Tail(i), acc * 10 + DigitVal(i[1]), TRUE)

u64(i) == uint_from(U64_MAX, i, 0, FALSE)
u32(i) == uint_from(U32_MAX, i, 0, FALSE)

\* nom::character::complete::i64: an optional '+' or '-', then digits.
RECURSIVE nint_from(_, _, _)
nint_from(i, acc, seen) ==
    IF i = <<>> \/ ~IsDigit(i[1])
    THEN IF seen THEN Ok(i, acc) ELSE Err
    ELSE IF acc * 10 - DigitVal(i[1]) < I64_MIN THEN Err
    ELSE nint_from(Tail(i), acc * 10 - DigitVal(i[1]), TRUE)

i64(i) ==
    IF i # <<>> /\ i[1] = Chr("-") THEN nint_from(Tail(i), 0, FALSE)
    ELSE IF i # <<>> /\ i[1] = Chr("+") THEN uint_from(I64_MAX, Tail(i), 0, FALSE)
    ELSE uint_from(I64_MAX, i, 0, FALSE)

\* Faulty variant of number_sequence_incr: a step of 0 is kept.
number_sequence_incr_uncoerced(i) ==
    LET t == tag(Str(<<".", ".">>), i) IN
    IF ~t.ok THEN Err ELSE u64(t.rest)

number_sequence_incr(i) ==
    LET t == tag(Str(<<".", ".">>), i) IN
    IF ~t.ok THEN Err
    ELSE LET n == u64(t.rest) IN
         IF ~n.ok THEN Err ELSE Ok(n.rest, IF n.val < 1 THEN 1 ELSE n.val)

char_sequence_incr(i) ==
    LET t == tag(Str(<<".", ".">>), i) IN
    IF ~t.ok THEN Err
    ELSE LET n == u32(t.rest) IN
         IF ~n.ok THEN Err ELSE Ok(n.rest, IF n.val < 1 THEN 1 ELSE n.val)

IntSequence(width, start, end, incr) ==
    [kind |-> "Int", width |-> width, start |-> start, end |-> end, incr |-> incr]
CharSequence(start, end, incr) ==
    [kind |-> "Char", start |-> start, end |-> end, incr |-> incr]

number_sequence(i) ==
    LET open == tag(Str(<<"{">>), i) IN
    IF ~open.ok THEN Err ELSE
    LET equal == opt(tag(Str(<<"=">>), open.rest), open.rest)
        start == i64(equal.rest)
    IN
    IF ~start.ok THEN Err ELSE
    LET dots == tag(Str(<<".", ".">>), start.rest) IN
    IF ~dots.ok THEN Err ELSE
    LET end == i64(dots.rest) IN
    IF ~end.ok THEN Err ELSE
    LET incr == opt(number_sequence_incr(end.rest), end.rest)
        close == tag(Str(<<"}">>), incr.rest)
        start_width == Len(equal.rest) - Len(start.rest)
        end_width == Len(dots.rest) - Len(end.rest)
    IN
    IF ~close.ok THEN Err ELSE
    Ok(close.rest,
       IntSequence(IF equal.val = <<>> THEN <<>> ELSE <<Max(start_width, end_width)>>,
                   start.val, end.val,
                   IF incr.val = <<>> THEN 1 ELSE incr.val[1]))

char_sequence(i) ==
    LET open == tag(Str(<<"{">>), i) IN
    IF ~open.ok THEN Err ELSE
    LET start == sequence_char(open.rest) IN
    IF ~start.ok THEN Err ELSE
    LET dots == tag(Str(<<".", ".">>), start.rest) IN
    IF ~dots.ok THEN Err ELSE
    LET end == sequence_char(dots.rest) IN
    IF ~end.ok THEN Err ELSE
    LET incr == opt(char_sequence_incr(end.rest), end.rest)
        close == tag(Str(<<"}">>), incr.rest)
    IN
    IF ~close.ok THEN Err ELSE
    Ok(close.rest,
       CharSequence(start.val, end.val, IF incr.val = <<>> THEN 1 ELSE incr.val[1]))

\* alt((number_sequence, char_sequence))
sequence(i) == alt(number_sequence(i), char_sequence(i))

List(items) == [kind |-> "List", items |-> items]
Expression(parts) == [kind |-> "Expression", parts |-> parts]

RECURSIVE list(_), list_expression(_), list_parts_from(_, _), list_items_from(_, _)

\* alt((sequence, list, list_plain)), one part of a list member.
list_part(i) == alt(sequence(i), alt(list(i), list_plain(i)))

\* One round of many1 with r the part parser's result on i: the loop ends at
\* its first failure; a part that consumes nothing is nom's infinite-loop
\* error.
list_parts_more(r, i, acc) ==
    IF ~r.ok THEN Ok(i, acc)
    ELSE IF Len(r.rest) = Len(i) THEN Err
    ELSE list_parts_from(r.rest, Append(acc, r.val))

\* The loop of many1(alt((sequence, list, list_plain))).
list_parts_from(i, acc) == list_parts_more(list_part(i), i, acc)

\* many1's result, at least one part, wrapped in Part::Expression.
list_expression_of(r) ==
    IF ~r.ok \/ r.val = <<>> THEN Err ELSE Ok(r.rest, Expression(r.val))

list_expression(i) == list_expression_of(list_parts_from(i, <<>>))

\* alt((list_expression, empty_plain)), one member of a list.
list_item(i) == alt(list_expression(i), empty_plain(i))

\* One round of separated_list0 with r the item parser's result after a
\* separator: the list ends before the separator when the item fails.
list_items_more(r, i, acc) ==
    IF ~r.ok THEN Ok(i, acc) ELSE list_items_from(r.rest, Append(acc, r.val))

\* The loop of separated_list0(tag(","), list_item) after its first item.
list_items_from(i, acc) ==
    LET sep == tag(Str(<<",">>), i) IN
    IF ~sep.ok THEN Ok(i, acc) ELSE list_items_more(list_item(sep.rest), i, acc)

\* separated_list0(tag(","), list_item) with first the item parser's result
\* on i: no item at all is an empty Vec.
list_items_first(first, i) ==
    IF ~first.ok THEN Ok(i, <<>>) ELSE list_items_from(first.rest, <<first.val>>)

\* list, lines 141-142, with items the result of separated_list0.
list_close(items) ==
    IF ~items.ok THEN Err ELSE
    LET close == tag(Str(<<"}">>), items.rest) IN
    IF ~close.ok THEN Err ELSE Ok(close.rest, List(items.val))

list(i) ==
    LET open == tag(Str(<<"{">>), i) IN
    IF ~open.ok THEN Err
    ELSE list_close(list_items_first(list_item(open.rest), open.rest))

\* alt((sequence, list, top_plain)), one part of the top level.
top_part(i) == alt(sequence(i), alt(list(i), top_plain(i)))

RECURSIVE top_parts_from(_, _)

\* One round of many0 with r the part parser's result on i.
top_parts_more(r, i, acc) ==
    IF ~r.ok THEN Ok(i, acc)
    ELSE IF Len(r.rest) = Len(i) THEN Err
    ELSE top_parts_from(r.rest, Append(acc, r.val))

\* The loop of many0(alt((sequence, list, top_plain))).
top_parts_from(i, acc) == top_parts_more(top_part(i), i, acc)

\* Faulty variant of all_consuming: the parts of the prefix that matched are
\* returned whatever is left of the input.
all_consuming_prefix(r) ==
    IF ~r.ok THEN Err ELSE Ok(r.rest, Expression(r.val))

\* all_consuming(..) on many0's result, wrapped in Expression.
all_consuming(r) ==
    IF ~r.ok \/ r.rest # <<>> THEN Err ELSE Ok(r.rest, Expression(r.val))

\* all_consuming(complete(many0(alt((sequence, list, top_plain))))).
expression(i) == all_consuming(top_parts_from(i, <<>>))

\* The match of try_from on the parser's output: Ok(expression) or Err(message).
try_from_match(output) == IF output.ok THEN <<output.val>> ELSE <<>>

\* impl TryFrom<&str> for Expression.
try_from(value) == try_from_match(expression(value))

-----------------------------------------------------------------------------
(* lib.rs: rendering of numbers.                                           *)

RECURSIVE NatDigits(_)
NatDigits(n) ==
    IF n < 10 THEN <<Chr("0") + n>>
    ELSE NatDigits(n \div 10) \o <<Chr("0") + (n % 10)>>

\* i64::to_string, and "{start}" / "{incr}" of Display.
to_string(n) == IF n < 0 THEN <<Chr("-")>> \o NatDigits(-n) ELSE NatDigits(n)

Zeros(k) == [i \in 1..k |-> Chr("0")]

\* Faulty variant of format_width: the zeros are put before the sign.
format_width_sign_unaware(number, width) ==
    LET plain == to_string(number) IN
    IF Len(plain) >= width THEN plain
    ELSE Zeros(width - Len(plain)) \o plain

\* format!("{number:0width$}"): sign-aware zero padding to at least width.
format_width(number, width) ==
    LET plain == to_string(number) IN
    IF Len(plain) >= width THEN plain
    ELSE IF number < 0
    THEN <<Chr("-")>> \o Zeros(width - Len(plain)) \o NatDigits(-number)
    ELSE Zeros(width - Len(plain)) \o plain

-----------------------------------------------------------------------------
(* lib.rs: the iterators.  An iterator is a record of its kind and state; *)
(* a call of next maps it to [item, it]: the Option<Item> returned and the *)
(* iterator left behind.                                                   *)

OkItem(s) == [ok |-> TRUE, s |-> s]
ErrItem == [ok |-> FALSE, s |-> <<>>]
Step(item, it) == [item |-> item, it |-> it]

\* impl IntoIterator for Sequence (lib.rs).
LibSequence_into_iter(part) ==
    IF part.kind = "Int"
    THEN [kind |-> "Int", width |-> part.width,
          sequence |-> Sequence_into_iter(
              [kind |-> "i64", start |-> part.start, end |-> part.end, incr |-> part.incr])]
    ELSE [kind |-> "Char",
          sequence |-> Sequence_into_iter(
              [kind |-> "char", start |-> part.start, end |-> part.end, incr |-> part.incr])]

\* impl Iterator for SequenceIterator (lib.rs): the rendering of one item.
LibSequenceIterator_render(it, r) ==
    IF it.kind = "Int"
    THEN IF it.width # <<>> THEN OkItem(format_width(r.v, it.width[1]))
         ELSE OkItem(to_string(r.v))
    ELSE IF r.ok THEN OkItem(<<r.v>>) ELSE ErrItem

LibSequenceIterator_next(it) ==
    LET r == SequenceIterator_item(it.sequence) IN
    Step(IF r = <<>> THEN <<>> ELSE <<LibSequenceIterator_render(it, r[1])>>,
         [it EXCEPT !.sequence = SequenceIterator_advance(it.sequence)])

\* Faulty variant of ExpressionIterator_join: failed items are left out of the
\* concatenation instead of failing it.
ExpressionIterator_join_skip_errors(parts) ==
    IF Len(parts) = 0 THEN OkItem(<<>>)
    ELSE IF Len(parts) = 1 THEN parts[1]
    ELSE OkItem(Concat([i \in 1..Len(parts) |-> parts[i].s]))

\* ExpressionIterator::next, the closure applied to the Vec MultiProduct yields.
ExpressionIterator_join(parts) ==
    IF Len(parts) = 0 THEN OkItem(<<>>)
    ELSE IF Len(parts) = 1 THEN parts[1]
    ELSE IF \E i \in 1..Len(parts) : ~parts[i].ok THEN ErrItem
    ELSE OkItem(Concat([i \in 1..Len(parts) |-> parts[i].s]))

RECURSIVE Part_into_iter(_), PartIterator_next(_), Flatten_next(_),
          MultiProduct_next(_), MultiProduct_advance(_, _)

\* One iterator of a MultiProduct: the current item, the iterator, and the
\* fresh copy of the iterator it restarts from.
MultiProductIter(it) == [cur |-> <<>>, iter |-> it, iter_orig |-> it]

\* Faulty variant of List_into_iter: the members are combined as the parts of
\* an Expression are, by product.
List_into_iter_product(part) ==
    [kind |-> "Expression", started |-> FALSE, done |-> FALSE,
     iters |-> [i \in 1..Len(part.items) |->
                  MultiProductIter(Part_into_iter(part.items[i]))]]

\* impl IntoIterator for List: self.0.into_iter().flatten().
List_into_iter(part) == [kind |-> "List", rest |-> part.items, front |-> <<>>]

\* impl IntoIterator for Expression: multi_cartesian_product over the parts'
\* iterators.
Expression_into_iter(part) ==
    [kind |-> "Expression", started |-> FALSE, done |-> FALSE,
     iters |-> [i \in 1..Len(part.parts) |->
                  MultiProductIter(Part_into_iter(part.parts[i]))]]

\* impl IntoIterator for Part.
Part_into_iter(part) ==
    CASE part.kind = "Plain" -> [kind |-> "Plain", once |-> <<part.text>>]
      [] part.kind = "List" -> List_into_iter(part)
      [] part.kind \in {"Int", "Char"} -> LibSequence_into_iter(part)
      [] part.kind = "Expression" -> Expression_into_iter(part)

\* iter::Flatten::next with r pulled from the member in front: its item, or
\* on to the next member when it is exhausted.
Flatten_front(it, r) ==
    IF r.item # <<>> THEN Step(r.item, [it EXCEPT !.front = <<r.it>>])
    ELSE Flatten_next([it EXCEPT !.front = <<>>])

\* iter::Flatten::next over the members of a List.
Flatten_next(it) ==
    IF it.front # <<>> THEN Flatten_front(it, PartIterator_next(it.front[1]))
    ELSE IF it.rest = <<>> THEN Step(<<>>, it)
    ELSE Flatten_next([it EXCEPT !.front = <<Part_into_iter(Head(it.rest))>>,
                                 !.rest = Tail(it.rest)])

\* Faulty variant of MultiProduct_advance: the parts are advanced from the
\* first one, so the first part varies fastest.
RECURSIVE MultiProduct_advance_first_fastest(_, _)
MultiProduct_advance_first_fastest(iters, k) ==
    IF k = 0 THEN [ok |-> FALSE, iters |-> iters]
    ELSE LET j == Len(iters) - k + 1
             r == PartIterator_next(iters[j].iter)
         IN
         IF r.item # <<>>
         THEN [ok |-> TRUE,
               iters |-> [iters EXCEPT ![j].cur = r.item, ![j].iter = r.it]]
         ELSE LET up == MultiProduct_advance_first_fastest(iters, k - 1)
                  fresh == PartIterator_next(iters[j].iter_orig)
              IN
              IF ~up.ok \/ fresh.item = <<>> THEN [ok |-> FALSE, iters |-> iters]
              ELSE [ok |-> TRUE,
                    iters |-> [up.iters EXCEPT ![j].cur = fresh.item,
                                               ![j].iter = fresh.it]]

\* MultiProduct: part k is exhausted; up is the advance of the parts before
\* it and fresh the first pull of part k's fresh copy.
MultiProduct_restart(iters, k, up, fresh) ==
    IF ~up.ok \/ fresh.item = <<>> THEN [ok |-> FALSE, iters |-> iters]
    ELSE [ok |-> TRUE,
          iters |-> [up.iters EXCEPT ![k].cur = fresh.item, ![k].iter = fresh.it]]

\* MultiProduct: r is the pull of part k; it gives the next tuple, or part k
\* is exhausted.
MultiProduct_pulled(iters, k, r) ==
    IF r.item # <<>>
    THEN [ok |-> TRUE, iters |-> [iters EXCEPT ![k].cur = r.item, ![k].iter = r.it]]
    ELSE MultiProduct_restart(iters, k, MultiProduct_advance(iters, k - 1),
                              PartIterator_next(iters[k].iter_orig))

\* MultiProduct: advance part k; when it is exhausted, advance the parts
\* before it and restart part k from its fresh copy.
MultiProduct_advance(iters, k) ==
    IF k = 0 THEN [ok |-> FALSE, iters |-> iters]
    ELSE MultiProduct_pulled(iters, k, PartIterator_next(iters[k].iter))

\* MultiProduct: one part's share of the first tuple, r being its first pull.
MultiProduct_first_of(cell, r) ==
    [cur |-> r.item, iter |-> r.it, iter_orig |-> cell.iter_orig]

\* MultiProduct: the first tuple; there is one when every part has an item
\* (for no parts at all: the empty tuple).
MultiProduct_first_tuple(first) ==
    [ok |-> \A i \in 1..Len(first) : first[i].cur # <<>>, iters |-> first]

MultiProduct_first(iters) ==
    MultiProduct_first_tuple(
        [i \in 1..Len(iters) |->
            MultiProduct_first_of(iters[i], PartIterator_next(iters[i].iter))])

\* MultiProduct::next, once the iterators have moved: Some(the current items)
\* or None.
MultiProduct_moved(it, moved) ==
    IF moved.ok
    THEN Step(<<[i \in 1..Len(moved.iters) |-> moved.iters[i].cur[1]]>>,
              [it EXCEPT !.started = TRUE, !.iters = moved.iters])
    ELSE Step(<<>>, [it EXCEPT !.started = TRUE, !.done = TRUE])

\* MultiProduct::next.
MultiProduct_next(it) ==
    IF it.done THEN Step(<<>>, it)
    ELSE MultiProduct_moved(it,
             IF it.started THEN MultiProduct_advance(it.iters, Len(it.iters))
             ELSE MultiProduct_first(it.iters))

\* ExpressionIterator::next: self.0.next().map(|parts| ..).
ExpressionIterator_map(r) ==
    Step(IF r.item = <<>> THEN <<>> ELSE <<ExpressionIterator_join(r.item[1])>>, r.it)

\* impl Iterator for ExpressionIterator.
ExpressionIterator_next(it) == ExpressionIterator_map(MultiProduct_next(it))

\* impl Iterator for PartIterator.
PartIterator_next(it) ==
    CASE it.kind = "Plain" ->
           Step(IF it.once = <<>> THEN <<>> ELSE <<OkItem(it.once[1])>>,
                [it EXCEPT !.once = <<>>])
      [] it.kind = "List" -> Flatten_next(it)
      [] it.kind \in {"Int", "Char"} -> LibSequenceIterator_next(it)
      [] it.kind = "Expression" -> ExpressionIterator_next(it)

\* Iterator::collect: the items an iterator yields until its first None.
RECURSIVE Collect(_)
Collect(it) ==
    LET r == PartIterator_next(it) IN
    IF r.item = <<>> THEN <<>> ELSE r.item \o Collect(r.it)

-----------------------------------------------------------------------------
(* lib.rs: the Display implementations.                                    *)

RECURSIVE EscapeChars(_, _)
EscapeChars(escaped, s) ==
    IF s = <<>> THEN <<>>
    ELSE (IF Contains(escaped, Head(s)) THEN <<BACKSLASH, Head(s)>> ELSE <<Head(s)>>)
         \o EscapeChars(escaped, Tail(s))

\* impl Display for Sequence.
Sequence_fmt(part) ==
    LET incr == IF part.incr # 1 THEN Str(<<".", ".">>) \o to_string(part.incr) ELSE <<>>
        esc == Str(<<",", ".", "{", "}", "\\">>)
    IN
    IF part.kind = "Int"
    THEN Str(<<"{">>) \o (IF part.width # <<>> THEN Str(<<"=">>) ELSE <<>>)
         \o to_string(part.start) \o Str(<<".", ".">>) \o to_string(part.end)
         \o incr \o Str(<<"}">>)
    ELSE Str(<<"{">>) \o EscapeChars(esc, <<part.start>>) \o Str(<<".", ".">>)
         \o EscapeChars(esc, <<part.end>>) \o incr \o Str(<<"}">>)

RECURSIVE Part_fmt(_), JoinFmt(_, _)

\* The members of a List, each after the first preceded by a comma; the parts
\* of an Expression with no separator.
JoinFmt(parts, sep) ==
    IF parts = <<>> THEN <<>>
    ELSE IF Len(parts) = 1 THEN Part_fmt(parts[1])
    ELSE Part_fmt(parts[1]) \o sep \o JoinFmt(Tail(parts), sep)

\* impl Display for List.
List_fmt(part) == Str(<<"{">>) \o JoinFmt(part.items, Str(<<",">>)) \o Str(<<"}">>)

\* impl Display for Expression.
Expression_fmt(part) == JoinFmt(part.parts, <<>>)

\* impl Display for Part.
Part_fmt(part) ==
    CASE part.kind = "Plain" -> EscapeChars(Str(<<",", "{", "}", "\\">>), part.text)
      [] part.kind = "List" -> List_fmt(part)
      [] part.kind \in {"Int", "Char"} -> Sequence_fmt(part)
      [] part.kind = "Expression" -> Expression_fmt(part)

-----------------------------------------------------------------------------
(* The inputs Init draws from.                                             *)

Alphabet == {Chr(c) : c \in {"{", "}", ",", "\\", ".", "a", "1"}}

ShortTexts == UNION {[1..n -> Alphabet] : n \in 0..MaxLen}

SegmentPool ==
    << Str(<<"a">>),
       Str(<<"{", "a", ",", "b", "}">>),
       Str(<<"{", "b", ",", "c", ",", "}">>),
       Str(<<"{", "1", ".", ".", "3", "}">>),
       Str(<<"{", "c", ".", ".", "a", "}">>),
       Str(<<"{", "x", "{", "y", ",", "z", "}", "}">>),
       Str(<<"{", "}">>),
       Str(<<"{", "=", "-", "1", ".", ".", "1", "0", ".", ".", "5", "}">>),
       Str(<<"{", "D7FF", ".", ".", "E000", ".", ".", "1", "0", "2", "4", "}">>),
       Str(<<"\\", "{">>) >>

SegmentTexts ==
    {Concat([i \in 1..Len(c) |-> SegmentPool[c[i]]]) :
        c \in UNION {[1..n -> 1..Len(SegmentPool)] : n \in 0..MaxSegs}}

\* The inputs of the tests of lib.rs (tests::test_display lists them all).
DisplayTests ==
    { Str(<<"{", "a", ",", "b", ",", "c", "}">>),
      Str(<<"{", "a", ",", ",", ",", "b", ",", "c", "}">>),
      Str(<<"{", "a", ",", "b", "\\", ",", "c", ",", "d", "\\", "{", "e", ",",
            "f", "\\", "}", "\\", "\\", "g", "}">>),
      Str(<<"s", "{", "a", ",", "b", "{", ",", "c", ",", "d", "{", "e", ",", "f",
            "}", "g", ",", "h", "{", "i", ",", "j", "{", "k", "}", "l", ",", "m",
            "{", "}", "n", "}", "o", "}", "p", ",", "q", "}", "r">>),
      Str(<<"{", "a", ",", ",", "c", "}">>),
      Str(<<"a", "{", "b", ",", "c", ",", "}", "d", "{", "1", ".", ".", "2", "}", "e">>),
      Str(<<"a", "{", "d", ".", ".", "f", "}", "g">>),
      Str(<<"a", "{", "-", "1", "0", ".", ".", "1", "0", ".", ".", "3", "}", "g">>),
      Str(<<"a", "{", "z", ".", ".", "\\", "}", "}", "b", "{", "\\", ".", ".", ".",
            "\\", "{", ".", ".", "7", "7", "}", "c">>),
      Str(<<"{", "=", "-", "1", ".", ".", "1", "0", "0", "0", ".", ".", "3", "0",
            "0", "}">>) }

\* Inputs for the cases of the grammar the generated texts are too short to hold.
Corpus ==
    DisplayTests \cup
    { \* fixed width: leading zeros, a plus sign, a descending walk through zero
      Str(<<"{", "=", "0", "0", "7", ".", ".", "1", "0", "}">>),
      Str(<<"{", "=", "+", "1", ".", ".", "3", "}">>),
      Str(<<"{", "=", "5", ".", ".", "-", "5", ".", ".", "4", "}">>),
      Str(<<"{", "=", "-", "0", ".", ".", "2", "}">>),
      Str(<<"{", "8", ".", ".", "1", "1", "}">>),
      Str(<<"{", "1", "0", ".", ".", "-", "2", ".", ".", "0", "}">>),
      \* a step that does not divide the distance
      Str(<<"{", "1", ".", ".", "1", "0", ".", ".", "4", "}">>),
      \* a character range whose step is written 0
      Str(<<"{", "a", ".", ".", "c", ".", ".", "0", "}">>),
      \* ranges beside and across the surrogate block
      Str(<<"x", "{", "D7FF", ".", ".", "E000", ".", ".", "6", "8", "3", "}", "{",
            "a", ",", "b", "}">>),
      Str(<<"{", "E000", ".", ".", "D7FF", ".", ".", "2", "0", "4", "9", "}">>),
      Str(<<"{", "a", ",", "{", "D7FF", ".", ".", "E000", ".", ".", "1", "0", "2",
            "4", "}", "b", "}", "c">>),
      \* number, character and list forms of a brace group
      Str(<<"{", "1", ".", ".", "3", ".", ".", "2", "}">>),
      Str(<<"{", "-", ".", ".", "1", "}">>),
      Str(<<"{", "=", ".", ".", "a", "}">>),
      Str(<<"{", "a", ".", ".", "c", "}">>),
      Str(<<"{", "a", ".", ".", "b", "c", "}">>),
      Str(<<"{", "a", ".", "b", "}">>),
      Str(<<"{", "a", "{", "1", ".", ".", "2", "}", ",", "{", "b", ".", ".", "c",
            "}", "}">>),
      Str(<<"{", "\\", "a", ".", ".", "c", "}">>),
      \* escapes and braces that close or open nothing
      Str(<<"a", "\\", ",", "b">>),
      Str(<<"a", ",", "b">>),
      Str(<<"{", "a", "\\", "b", "}">>),
      Str(<<"{", "a", ",", "b", "\\", "}">>),
      Str(<<"a", "{", "b", ",", "c">>),
      Str(<<"{", "a", ",", "{", "b", "}">>),
      Str(<<"{", "a", ",", "b", "}", "}">>),
      Str(<<"a", "\\", "{", "b", "\\", "}", "\\", "\\", "c">>),
      Str(<<"{", "{", "a", ",", "b", "}", "{", "1", ".", ".", "2", "}", ",",
            "c", "}">>) }

Inputs == ShortTexts \cup SegmentTexts \cup Corpus

IntEnds == (-MaxAbs..MaxAbs) \cup {I64_MIN, I64_MIN + 1, I64_MAX - 1, I64_MAX}
IntSteps == (1..MaxStep) \cup {U64_MAX}
CharEnds ==
    {0, 1} \cup (Chr("a")..(Chr("a") + MaxAbs))
    \cup {55294, 55295, 57344, 57345} \cup {1114110, 1114111}
CharSteps == (1..MaxStep) \cup {683, 1024, 2049, 4096, U32_MAX}

Sequence(kind, start, end, incr) ==
    [kind |-> kind, start |-> start, end |-> end, incr |-> incr]

\* The sequences of the tests of sequence.rs.
TestSequences ==
    { Sequence("i64", 1, 10, 1), Sequence("i64", 1, 10, 2), Sequence("i64", 10, 1, 1),
      Sequence("i64", 10, 1, 2), Sequence("char", 97, 102, 1), Sequence("char", 97, 102, 2),
      Sequence("char", 102, 97, 1), Sequence("char", 102, 97, 2),
      Sequence("char", 55295, 57344, 1), Sequence("char", 53248, 65537, 4096) }

Sequences ==
    {s \in {Sequence("i64", a, b, k) : a \in IntEnds, b \in IntEnds, k \in IntSteps} :
        Abs(s.end - s.start) \div s.incr < MaxItems}
    \cup
    {s \in {Sequence("char", a, b, k) : a \in CharEnds, b \in CharEnds, k \in CharSteps} :
        Abs(s.end - s.start) \div s.incr < MaxItems}
    \cup TestSequences

-----------------------------------------------------------------------------
(* The state machine: a caller parses an input, may print the Expression,  *)
(* turns it into its iterator and pulls items to the end; or a caller      *)
(* iterates a Sequence<T> of the range engine directly.                    *)

\* Pulls of a SequenceIterator after it has returned None.
MaxEnded == 2

NoSeq == Sequence("i64", 0, 0, 1)
NoIter == [kind |-> "None"]

InitExpression ==
    /\ mode = "expr"
    /\ input \in Inputs
    /\ pc = "start"
    /\ expr = <<>>
    /\ shown = <<>>
    /\ iter = NoIter
    /\ out = <<>>
    /\ sseq = NoSeq
    /\ sit = <<>>
    /\ sout = <<>>
    /\ sended = 0

InitSequence ==
    /\ mode = "seq"
    /\ input = <<>>
    /\ pc = "idle"
    /\ expr = <<>>
    /\ shown = <<>>
    /\ iter = NoIter
    /\ out = <<>>
    /\ sseq \in Sequences
    /\ sit = <<>>
    /\ sout = <<>>
    /\ sended = 0

Init == InitExpression \/ InitSequence

\* Expression::try_from(input)
TryFrom ==
    /\ pc = "start"
    /\ expr' = try_from(input)
    /\ pc' = IF expr' # <<>> THEN "parsed" ELSE "failed"
    /\ UNCHANGED <<mode, input, shown, iter, out, sseq, sit, sout, sended>>

\* expression.to_string()
Display ==
    /\ pc = "parsed"
    /\ shown = <<>>
    /\ shown' = <<Expression_fmt(expr[1])>>
    /\ UNCHANGED <<mode, input, pc, expr, iter, out, sseq, sit, sout, sended>>

\* expression.into_iter()
IntoIter ==
    /\ pc = "parsed"
    /\ iter' = Expression_into_iter(expr[1])
    /\ pc' = "iter"
    /\ UNCHANGED <<mode, input, expr, shown, out, sseq, sit, sout, sended>>

\* ExpressionIterator::next
IterNext ==
    /\ pc = "iter"
    /\ \E r \in {ExpressionIterator_next(iter)} :
       /\ iter' = r.it
       /\ out' = out \o r.item
       /\ pc' = IF r.item = <<>> THEN "end" ELSE "iter"
    /\ UNCHANGED <<mode, input, expr, shown, sseq, sit, sout, sended>>

\* sequence.into_iter()
SeqIntoIter ==
    /\ mode = "seq"
    /\ sit = <<>>
    /\ sit' = <<Sequence_into_iter(sseq)>>
    /\ UNCHANGED <<mode, input, pc, expr, shown, iter, out, sseq, sout, sended>>

\* SequenceIterator::next
SeqNext ==
    /\ sit # <<>>
    /\ sended < MaxEnded
    /\ LET item == SequenceIterator_item(sit[1]) IN
       /\ sit' = <<SequenceIterator_advance(sit[1])>>
       /\ sout' = sout \o item
       /\ sended' = IF item = <<>> THEN sended + 1 ELSE sended
    /\ UNCHANGED <<mode, input, pc, expr, shown, iter, out, sseq>>

Next == TryFrom \/ Display \/ IntoIter \/ IterNext \/ SeqIntoIter \/ SeqNext

Spec == Init /\ [][Next]_vars

-----------------------------------------------------------------------------
(* Properties.                                                             *)

Parsed == mode = "expr" /\ pc \in {"parsed", "iter", "end"}
Pulling == mode = "expr" /\ pc \in {"iter", "end"}
Parts == expr[1].parts

\* The items part i of the parsed Expression produces when iterated alone.
Candidates(i) == Collect(Part_into_iter(Parts[i]))

RECURSIVE Product(_)
Product(counts) == IF counts = <<>> THEN 1 ELSE Head(counts) * Product(Tail(counts))

\* Mixed-radix counting: the (1-based) digit at place i of the k-th tuple,
\* the last place being the least significant.
Digit(k, i, counts) ==
    (((k - 1) \div Product(SubSeq(counts, i + 1, Len(counts)))) % counts[i]) + 1

\* The k-th item of the product of the candidate sequences cands: the
\* concatenation of the k-th tuple, an error if the tuple holds an error.
OdometerItem(k, cands) ==
    LET counts == [i \in 1..Len(cands) |-> Len(cands[i])]
        tuple == [i \in 1..Len(cands) |-> cands[i][Digit(k, i, counts)]]
    IN
    IF \E i \in 1..Len(tuple) : ~tuple[i].ok THEN ErrItem
    ELSE OkItem(Concat([i \in 1..Len(tuple) |-> tuple[i].s]))

\* C1: for a parsed Pattern of n >= 1 segments whose segments alone produce
\* c_1..c_n items, the items pulled are, in order, the concatenations of the
\* tuples of odometer counting (last segment fastest, first slowest), and at
\* the end of the sequence exactly product(c_i) items have been pulled.
C1_OdometerOrder ==
    (Pulling /\ Len(Parts) >= 1) =>
        LET cands == [i \in 1..Len(Parts) |-> Candidates(i)]
            total == Product([i \in 1..Len(cands) |-> Len(cands[i])])
        IN
        /\ Len(out) <= total
        /\ pc = "end" => Len(out) = total
        /\ \A k \in 1..Len(out) : out[k] = OdometerItem(k, cands)

\* An expansion pulled to its end in which at least two segments of three or
\* more each have several candidates.
C1_Witness ==
    /\ Pulling /\ pc = "end"
    /\ Len(Parts) >= 3
    /\ Cardinality({i \in 1..Len(Parts) : Len(Candidates(i)) >= 2}) >= 2
    /\ Len(out) >= 6

\* The List nodes of a tree, at any depth.
RECURSIVE ListsIn(_)
ListsIn(part) ==
    CASE part.kind = "List" ->
           <<part>> \o Concat([i \in 1..Len(part.items) |-> ListsIn(part.items[i])])
      [] part.kind = "Expression" ->
           Concat([i \in 1..Len(part.parts) |-> ListsIn(part.parts[i])])
      [] OTHER -> <<>>

\* The expansion of a list member as a Pattern of its own: "" for the empty
\* member, the odometer product of its segments otherwise.
MemberExpansion(member) ==
    IF member.kind = "Plain" THEN <<OkItem(member.text)>>
    ELSE LET cands == [j \in 1..Len(member.parts) |->
                          Collect(Part_into_iter(member.parts[j]))]
             total == Product([j \in 1..Len(cands) |-> Len(cands[j])])
         IN [k \in 1..total |-> OdometerItem(k, cands)]

RECURSIVE Sum(_)
Sum(counts) == IF counts = <<>> THEN 0 ELSE Head(counts) + Sum(Tail(counts))

ListIsConcatenation(l) ==
    LET members == [i \in 1..Len(l.items) |-> MemberExpansion(l.items[i])]
        items == Collect(Part_into_iter(l))
    IN
    /\ items = Concat(members)
    /\ Len(items) = Sum([i \in 1..Len(members) |-> Len(members[i])])
    /\ \A i \in 1..Len(l.items) :
          (l.items[i].kind = "Plain" /\ l.items[i].text = <<>>)
              => members[i] = <<OkItem(<<>>)>>

\* C2: the candidates of every List of a parsed tree are the concatenation,
\* in source order, of its members' expansions (sum(c_i) items, an empty
\* member giving the one item "", a nested member expanded by product); the
\* items pulled from a Pattern that is one List are exactly these.
C2_ListConcatenates ==
    (Pulling /\ pc = "end") =>
        LET lists == ListsIn(expr[1]) IN
        /\ \A n \in 1..Len(lists) : ListIsConcatenation(lists[n])
        /\ (Len(Parts) = 1 /\ Parts[1].kind = "List") =>
               out = Concat([i \in 1..Len(Parts[1].items) |->
                                MemberExpansion(Parts[1].items[i])])

\* A List pulled to its end with an empty member, a member of one candidate
\* and a nested member whose own product has several items.
C2_Witness ==
    /\ Pulling /\ pc = "end"
    /\ \E n \in 1..Len(ListsIn(expr[1])) :
          LET l == ListsIn(expr[1])[n] IN
          /\ Len(l.items) >= 3
          /\ \E i \in 1..Len(l.items) : l.items[i].kind = "Plain"
          /\ \E i \in 1..Len(l.items) :
                /\ l.items[i].kind = "Expression"
                /\ Len(l.items[i].parts) >= 2
                /\ Len(MemberExpansion(l.items[i])) >= 2
          /\ Len(Collect(Part_into_iter(l))) > Len(l.items)

Iterated == mode = "seq" /\ sit # <<>>

\* The i-th position (0-based) of the walk of a Range.
Position(s, i) == IF s.start <= s.end THEN s.start + i * s.incr ELSE s.start - i * s.incr
RangeCount(s) == (Abs(s.end - s.start) \div s.incr) + 1

\* C3: a Range(start, end, step) yields floor(|end - start| / step) + 1
\* items, the i-th being start + i*step (start < end) or start - i*step
\* (start > end); every item lies between the ends, the items increase or
\* decrease strictly, and the walk is not clamped to land on end.
C3_RangeWalk ==
    Iterated =>
        /\ Len(sout) <= RangeCount(sseq)
        /\ sended >= 1 => Len(sout) = RangeCount(sseq)
        /\ \A i \in 1..Len(sout) :
              sout[i].ok =>
                 /\ sout[i].v = Position(sseq, i - 1)
                 /\ Min(sseq.start, sseq.end) <= sout[i].v
                 /\ sout[i].v <= Max(sseq.start, sseq.end)
        /\ \A i \in 1..(Len(sout) - 1) :
              (sout[i].ok /\ sout[i + 1].ok) =>
                 /\ sseq.start < sseq.end => sout[i].v < sout[i + 1].v
                 /\ sseq.start > sseq.end => sout[i].v > sout[i + 1].v
        /\ sseq.kind = "i64" => \A i \in 1..Len(sout) : sout[i].ok
        /\ sseq.start = sseq.end =>
              sout = IF sended >= 1 \/ sit[1].next = <<>>
                     THEN <<[ok |-> TRUE, v |-> sseq.start]>> ELSE <<>>

\* A descending walk run to its end whose step does not divide the distance,
\* so that its last item is not the end.
C3_Witness ==
    /\ Iterated /\ sended >= 1
    /\ sseq.kind = "i64"
    /\ sseq.start > sseq.end
    /\ (sseq.start - sseq.end) % sseq.incr # 0
    /\ Len(sout) >= 3
    /\ sout[Len(sout)].v # sseq.end

\* The index of the first character of t at or after from that is one of
\* chars; Len(t) + 1 if there is none.
IndexOf(t, from, chars) ==
    IF \E k \in from..Len(t) : Contains(chars, t[k])
    THEN CHOOSE k \in from..Len(t) :
             /\ Contains(chars, t[k])
             /\ \A j \in from..(k - 1) : ~Contains(chars, t[j])
    ELSE Len(t) + 1

\* The endpoint tokens of an input "{=" start ".." end ... "}" as written.
StartToken(t) == SubSeq(t, 3, IndexOf(t, 3, Str(<<".">>)) - 1)
EndToken(t) ==
    LET from == IndexOf(t, 3, Str(<<".">>)) + 2 IN
    SubSeq(t, from, IndexOf(t, from, Str(<<".", "}">>)) - 1)

AllDigits(s) == s # <<>> /\ \A k \in 1..Len(s) : IsDigit(s[k])
IsNegative(s) == s # <<>> /\ s[1] = Chr("-")
DigitsOf(s) == IF IsNegative(s) THEN Tail(s) ELSE s

RECURSIVE DigitsValue(_)
DigitsValue(s) ==
    IF s = <<>> THEN 0 ELSE DigitsValue(Take(s, Len(s) - 1)) * 10 + DigitVal(s[Len(s)])

\* The number a decimal text denotes: an optional leading "-", then digits.
DecimalValue(s) == IF IsNegative(s) THEN -DigitsValue(Tail(s)) ELSE DigitsValue(s)

\* Plain decimal: no padding, no sign but the "-" of a negative number.
IsPlainDecimal(s) ==
    /\ AllDigits(DigitsOf(s))
    /\ Len(DigitsOf(s)) > 1 => DigitsOf(s)[1] # Chr("0")
    /\ IsNegative(s) => DigitsOf(s) # Str(<<"0">>)

\* C4: for a numeric range written with the "=" flag every rendered item has
\* the length max(len(start token), len(end token)) of the endpoint tokens as
\* written, is left-padded with zeros and keeps the "-" of a negative item as
\* its first character; without the flag an item is plain decimal.
C4_FixedWidth ==
    (Pulling /\ Len(Parts) = 1 /\ Parts[1].kind = "Int") =>
        /\ (Parts[1].width # <<>>) <=> (input[2] = Chr("="))
        /\ \A k \in 1..Len(out) :
              /\ out[k].ok
              /\ AllDigits(DigitsOf(out[k].s))
              /\ DecimalValue(out[k].s) = Position(Parts[1], k - 1)
              /\ IsNegative(out[k].s) <=> Position(Parts[1], k - 1) < 0
              /\ IF input[2] = Chr("=")
                 THEN Len(out[k].s) = Max(Len(StartToken(input)), Len(EndToken(input)))
                 ELSE IsPlainDecimal(out[k].s)

\* A fixed-width range pulled to its end with a padded negative item and a
\* padded positive item.
C4_Witness ==
    /\ Pulling /\ pc = "end"
    /\ Len(Parts) = 1 /\ Parts[1].kind = "Int" /\ Parts[1].width # <<>>
    /\ \E k \in 1..Len(out) :
          /\ IsNegative(out[k].s)
          /\ Len(out[k].s) > Len(to_string(DecimalValue(out[k].s)))
    /\ \E k \in 1..Len(out) :
          /\ ~IsNegative(out[k].s)
          /\ Len(out[k].s) > Len(to_string(DecimalValue(out[k].s)))

\* The canonical escaping of a literal: each of , { } \ preceded by a backslash.
RECURSIVE CanonicalEscape(_)
CanonicalEscape(raw) ==
    IF raw = <<>> THEN <<>>
    ELSE (IF Head(raw) \in {Chr(","), Chr("{"), Chr("}"), Chr("\\")}
          THEN <<Chr("\\"), Head(raw)>> ELSE <<Head(raw)>>)
         \o CanonicalEscape(Tail(raw))

RawLiterals == UNION {[1..n -> {Chr(c) : c \in {"a", ",", "{", "\\"}}] : n \in 1..2}

\* Texts built from the grammar with the canonical escaping: a literal at the
\* top level, a list of two literals, and the texts of tests::test_display.
CanonicalTexts ==
    {CanonicalEscape(raw) : raw \in RawLiterals}
    \cup {Str(<<"{">>) \o CanonicalEscape(a) \o Str(<<",">>) \o CanonicalEscape(b)
             \o Str(<<"}">>) : a \in RawLiterals, b \in RawLiterals}
    \cup DisplayTests

\* C5: round trip: a text built from the grammar with the canonical escaping
\* parses, and the parsed tree formats to the same text, for literals at the
\* top level as for literals inside list members.
C5_RoundTrip ==
    (mode = "expr" /\ pc # "start" /\ input \in CanonicalTexts) =>
        /\ pc # "failed"
        /\ shown # <<>> => shown[1] = input

\* A scan of a text without ranges: whether a backslash stands before a
\* character it may not escape at its depth (or at the end), whether a
\* closing brace closes nothing, the number of groups left open, the number
\* of unescaped braces, and the literal characters in order.
RECURSIVE Scan(_, _, _)
Scan(t, i, depth) ==
    IF i > Len(t)
    THEN [badEscape |-> FALSE, stray |-> FALSE, open |-> depth, braces |-> 0, text |-> <<>>]
    ELSE IF t[i] = Chr("\\")
    THEN IF i < Len(t) /\ (t[i + 1] \in {Chr("\\"), Chr("{"), Chr("}")}
                            \/ (depth > 0 /\ t[i + 1] = Chr(",")))
         THEN LET r == Scan(t, i + 2, depth) IN [r EXCEPT !.text = <<t[i + 1]>> \o @]
         ELSE [badEscape |-> TRUE, stray |-> FALSE, open |-> depth, braces |-> 0,
               text |-> <<>>]
    ELSE IF t[i] = Chr("{")
    THEN LET r == Scan(t, i + 1, depth + 1) IN [r EXCEPT !.braces = @ + 1]
    ELSE IF t[i] = Chr("}")
    THEN IF depth = 0
         THEN [badEscape |-> FALSE, stray |-> TRUE, open |-> depth, braces |-> 1,
               text |-> <<>>]
         ELSE LET r == Scan(t, i + 1, depth - 1) IN [r EXCEPT !.braces = @ + 1]
    ELSE IF t[i] = Chr(",") /\ depth > 0 THEN Scan(t, i + 1, depth)
    ELSE LET r == Scan(t, i + 1, depth) IN [r EXCEPT !.text = <<t[i]>> \o @]

Scanned == Scan(input, 1, 0)
NoRanges == ~Contains(input, Chr("."))

\* A well-formed input with no list and no range: no unescaped brace and no
\* backslash but before one of \ { }.
IsLiteralInput == ~Scanned.badEscape /\ Scanned.braces = 0

C7_ErrorItems ==
    (Pulling /\ Len(Parts) >= 1) =>
        LET cands == [i \in 1..Len(Parts) |-> Candidates(i)]
            counts == [i \in 1..Len(cands) |-> Len(cands[i])]
        IN
        /\ \A k \in 1..Len(out) :
              LET tuple == [i \in 1..Len(cands) |-> cands[i][Digit(k, i, counts)]] IN
              /\ ~out[k].ok <=> \E i \in 1..Len(tuple) : ~tuple[i].ok
              /\ out[k].ok => out[k].s = Concat([i \in 1..Len(tuple) |-> tuple[i].s])
        /\ pc = "end" => Len(out) = Product(counts)

\* An expansion of several segments pulled to its end, with strings before
\* and after its error items.
C7_Witness ==
    /\ Pulling /\ pc = "end" /\ Len(Parts) >= 3
    /\ \E a \in 1..Len(out) : \E b \in 1..Len(out) : \E c \in 1..Len(out) :
          a < b /\ b < c /\ out[a].ok /\ ~out[b].ok /\ out[c].ok

InSurrogateBlock(p) == p \in 55296..57343

\* C8: a character range yields an error for each visited position in
\* 0xD800..0xDFFF and the character for each other one; the positions are
\* those of the integer range over the same code points, whether or not a
\* conversion failed, so a step over the whole block yields no error.  (The
\* positions are compared with the closed form for every range, and with a
\* run of the integer iterator for the ranges of at most MaxItems positions.)
C8_SurrogatePositions ==
    (Iterated /\ sseq.kind = "char") =>
        /\ \A i \in 1..Len(sout) :
              /\ sout[i].ok <=> ~InSurrogateBlock(Position(sseq, i - 1))
              /\ sout[i].ok => sout[i].v = Position(sseq, i - 1)
        /\ (sended >= 1 /\ RangeCount(sseq) <= MaxItems) =>
              LET ints == SequenceIterator_collect(
                              Sequence_into_iter([sseq EXCEPT !.kind = "i64"]))
              IN
              /\ Len(sout) = Len(ints)
              /\ \A i \in 1..Len(sout) : sout[i].ok => sout[i] = ints[i]

\* A character range run to its end that yielded characters before and after
\* its errors.
C8_Witness ==
    /\ Iterated /\ sseq.kind = "char" /\ sended >= 1
    /\ \E a \in 1..Len(sout) : \E b \in 1..Len(sout) : \E c \in 1..Len(sout) :
          a < b /\ b < c /\ sout[a].ok /\ ~sout[b].ok /\ sout[c].ok

\* The texts of the Plain parts of a tree, in order.
RECURSIVE PlainText(_)
PlainText(part) ==
    CASE part.kind = "Plain" -> part.text
      [] part.kind = "List" ->
           Concat([i \in 1..Len(part.items) |-> PlainText(part.items[i])])
      [] part.kind = "Expression" ->
           Concat([i \in 1..Len(part.parts) |-> PlainText(part.parts[i])])
      [] OTHER -> <<>>

\* A List whose members are literals or empty.
IsListOfLiterals(part) ==
    /\ part.kind = "List"
    /\ \A i \in 1..Len(part.items) :
          \/ part.items[i].kind = "Plain"
          \/ /\ Len(part.items[i].parts) = 1
             /\ part.items[i].parts[1].kind = "Plain"

\* C9: in literal text (inputs without ranges) a backslash before a character
\* other than \ { } (and , inside a list member), or at the end of the
\* input, makes the parse fail; a backslash before one of these does not; and
\* the escaped character is stored, and emitted, without its backslash.
C9_Escapes ==
    (mode = "expr" /\ pc # "start" /\ NoRanges) =>
        /\ Scanned.badEscape => pc = "failed"
        /\ (~Scanned.badEscape /\ ~Scanned.stray /\ Scanned.open = 0) => pc # "failed"
        /\ pc # "failed" => PlainText(expr[1]) = Scanned.text
        /\ (pc = "end" /\ Len(Parts) = 1 /\ IsListOfLiterals(Parts[1])) =>
              /\ \A k \in 1..Len(out) : out[k].ok
              /\ Concat([k \in 1..Len(out) |-> out[k].s]) = Scanned.text

\* The list of tests::test_list_escapes pulled to its end: a / b,c / d{e / f}\g.
C9_Witness ==
    /\ mode = "expr" /\ pc = "end" /\ NoRanges
    /\ Len(Scanned.text) + 4 < Len(input)
    /\ out = << OkItem(Str(<<"a">>)), OkItem(Str(<<"b", ",", "c">>)),
                OkItem(Str(<<"d", "{", "e">>)), OkItem(Str(<<"f", "}", "\\", "g">>)) >>

\* An opening brace of the top level at which none of the three brace forms
\* matches: the text before it holds no brace and no backslash.
UnmatchedTopBrace(k) ==
    /\ input[k + 1] = Chr("{")
    /\ \A j \in 1..k : input[j] \notin {Chr("{"), Chr("}"), Chr("\\")}
    /\ ~number_sequence(Drop(input, k)).ok
    /\ ~char_sequence(Drop(input, k)).ok
    /\ ~list(Drop(input, k)).ok

\* C10, as stated: at the top level an opening brace that no brace form
\* matches is a literal character: an input with opening braces and neither a
\* closing brace nor a backslash parses, and expands to itself.
C10_TopLevelBraceIsLiteral ==
    (/\ mode = "expr" /\ pc # "start"
     /\ Contains(input, Chr("{"))
     /\ ~Contains(input, Chr("}")) /\ ~Contains(input, Chr("\\"))) =>
        /\ pc # "failed"
        /\ pc = "end" => out = <<OkItem(input)>>

\* The first of NumRange, CharRange and List, in this order, to match i.
FirstBraceForm(i) ==
    IF number_sequence(i).ok THEN number_sequence(i)
    ELSE IF char_sequence(i).ok THEN char_sequence(i)
    ELSE list(i)

\* C10, amended: at an unescaped opening brace the parser tries NumRange,
\* then CharRange, then List, and the first to match gives the segment; if
\* none matches the parse fails, at the top level as inside a list member.
C10_BraceForms ==
    (mode = "expr" /\ pc # "start") =>
        /\ (pc # "failed" /\ input # <<>> /\ input[1] = Chr("{")) =>
              /\ FirstBraceForm(input).ok
              /\ Parts[1] = FirstBraceForm(input).val
        /\ (\E k \in 0..(Len(input) - 1) : UnmatchedTopBrace(k)) => pc = "failed"
        /\ (NoRanges /\ ~Scanned.badEscape /\ ~Scanned.stray /\ Scanned.open > 0)
              => pc = "failed"

\* A failed parse of an input whose top level holds, after some literal text,
\* an opening brace that no brace form matches.
C10_Witness ==
    /\ mode = "expr" /\ pc = "failed"
    /\ \E k \in 1..(Len(input) - 1) : UnmatchedTopBrace(k)
    /\ ~Contains(input, Chr("}")) /\ ~Contains(input, Chr("\\"))

-----------------------------------------------------------------------------
(* C11: the list written {}.                                               *)

\* The number of backslashes that end just before position k of t.
RECURSIVE BackslashesBefore(_, _)
BackslashesBefore(t, k) ==
    IF k > 1 /\ t[k - 1] = Chr("\\") THEN 1 + BackslashesBefore(t, k - 1) ELSE 0

\* t holds an unescaped opening brace followed at once by a closing brace.
HasEmptyBraces(t) ==
    \E k \in 1..(Len(t) - 1) :
        /\ t[k] = Chr("{") /\ t[k + 1] = Chr("}")
        /\ BackslashesBefore(t, k) % 2 = 0

\* The tree of the text {}.
IsEmptyBraces(part) == part.kind = "List" /\ part.items = <<[kind |-> "Plain", text |-> <<>>]>>

\* C11, as stated: a Pattern that holds {} as a segment expands to no item.
C11_EmptyBracesYieldNothing ==
    (mode = "expr" /\ pc = "end" /\ HasEmptyBraces(input)) => out = <<>>

\* C11, amended: {} is a List of one member, the empty literal; it gives its
\* position exactly one candidate, the empty string, so the number of items
\* of the Pattern is the product of the other segments' counts, and a Pattern
\* of literals and lists that holds {} has at least one item.
C11_EmptyBracesYieldEmptyString ==
    (Parsed /\ HasEmptyBraces(input)) =>
        LET lists == ListsIn(expr[1])
            others == SelectSeq([i \in 1..Len(Parts) |-> Parts[i]],
                                LAMBDA part : ~IsEmptyBraces(part))
        IN
        /\ \E n \in 1..Len(lists) : IsEmptyBraces(lists[n])
        /\ \A n \in 1..Len(lists) :
              IsEmptyBraces(lists[n]) =>
                  Collect(Part_into_iter(lists[n])) = <<OkItem(<<>>)>>
        /\ pc = "end" =>
              /\ Len(out) = Product([i \in 1..Len(others) |->
                                        Len(Collect(Part_into_iter(others[i])))])
              /\ NoRanges => out # <<>>

\* The expansion, pulled to its end, of a Pattern with {} between other
\* segments: it has items, and they are not empty.
C11_Witness ==
    /\ mode = "expr" /\ pc = "end" /\ HasEmptyBraces(input)
    /\ Len(Parts) >= 2
    /\ \E i \in 1..Len(Parts) : IsEmptyBraces(Parts[i])
    /\ out # <<>> /\ out[1].ok /\ out[1].s # <<>>

-----------------------------------------------------------------------------
(* C12: steps that leave the integer type.                                 *)

\* The step from position v of the Range s leaves the type of its positions:
\* signed 64-bit for numbers, unsigned 32-bit for characters.
StepOverflows(s, v) ==
    IF v < s.end
    THEN v + s.incr > (IF s.kind = "i64" THEN I64_MAX ELSE U32_MAX)
    ELSE v > s.end /\ v - s.incr < (IF s.kind = "i64" THEN I64_MIN ELSE 0)

\* The position of the item pulled last.
LastPosition == Position(sseq, Len(sout) - 1)

\* C12: when the step from the current position would overflow the type of
\* the positions, the current item is yielded as any other (an error only for
\* a surrogate) and the next pull ends the sequence; no item lies outside
\* [min(start, end), max(start, end)], for ends at the least and greatest
\* values of the type and steps up to the greatest unsigned value.
C12_OverflowEnds ==
    (Iterated /\ sout # <<>>) =>
        /\ \A i \in 1..Len(sout) :
              /\ sout[i].ok <=>
                    ~(sseq.kind = "char" /\ InSurrogateBlock(Position(sseq, i - 1)))
              /\ sout[i].ok =>
                    /\ sout[i].v = Position(sseq, i - 1)
                    /\ Min(sseq.start, sseq.end) <= sout[i].v
                    /\ sout[i].v <= Max(sseq.start, sseq.end)
        /\ sit[1].next # <<>> =>
              /\ Min(sseq.start, sseq.end) <= sit[1].next[1]
              /\ sit[1].next[1] <= Max(sseq.start, sseq.end)
        /\ StepOverflows(sseq, LastPosition) =>
              /\ sit[1].next = <<>>
              /\ Len(sout) = RangeCount(sseq)
              /\ Len(sout) <= MaxItems =>
                    sout = SequenceIterator_collect(Sequence_into_iter(sseq))

\* A range pulled past its end whose last step would have left the type, its
\* step being the greatest unsigned value or its last position next to the
\* edge of the type.
C12_Witness ==
    /\ Iterated /\ sout # <<>> /\ sended >= 1
    /\ StepOverflows(sseq, LastPosition)
    /\ LastPosition # sseq.end
    /\ sout[Len(sout)].ok

-----------------------------------------------------------------------------
(* C13: steps are at least 1, and every expansion ends.                    *)

\* The caller goes on: it parses, builds the iterator and pulls until the
\* iterator has returned None.  This is weak fairness of each of these
\* steps.  For the steps on an Expression, WF_vars(A) is written out as
\* []<>~ENABLED <<A>>_vars \/ []<><<A>>_vars with the enabling condition
\* stated: each of them has the position of the caller as its only guard
\* and changes that position or the items pulled.
FairSpec ==
    /\ Spec
    /\ WF_vars(SeqIntoIter) /\ WF_vars(SeqNext)
    /\ ([]<>(pc # "start") \/ []<><<TryFrom>>_vars)
    /\ ([]<>(pc # "parsed") \/ []<><<IntoIter>>_vars)
    /\ ([]<>(pc # "iter") \/ []<><<IterNext>>_vars)

\* The Ranges of a tree.
RECURSIVE RangesIn(_)
RangesIn(part) ==
    CASE part.kind \in {"Int", "Char"} -> <<part>>
      [] part.kind = "List" ->
           Concat([i \in 1..Len(part.items) |-> RangesIn(part.items[i])])
      [] part.kind = "Expression" ->
           Concat([i \in 1..Len(part.parts) |-> RangesIn(part.parts[i])])
      [] OTHER -> <<>>

\* t ends with a Range's step written as 0.
EndsWithZeroStep(t) ==
    Len(t) >= 4 /\ SubSeq(t, Len(t) - 3, Len(t)) = Str(<<".", ".", "0", "}">>)

\* The number of occurrences of ".." in t that start at or after position k.
RECURSIVE DotPairs(_, _)
DotPairs(t, k) ==
    IF k >= Len(t) THEN 0
    ELSE IF t[k] = Chr(".") /\ t[k + 1] = Chr(".") THEN 1 + DotPairs(t, k + 2)
    ELSE DotPairs(t, k + 1)

\* Every Range of the parsed tree has a step of at least 1; a step written 0
\* is 1 and so is an omitted step.
StepsAtLeastOne ==
    Parsed =>
        /\ \A n \in 1..Len(RangesIn(expr[1])) : RangesIn(expr[1])[n].incr >= 1
        /\ (EndsWithZeroStep(input) /\ Parts[Len(Parts)].kind \in {"Int", "Char"})
              => Parts[Len(Parts)].incr = 1
        /\ (Len(Parts) = 1 /\ Parts[1].kind \in {"Int", "Char"}
            /\ DotPairs(input, 1) = 1) => Parts[1].incr = 1

\* C13: every Range that parse produces has step >= 1 (a step written 0 is
\* coerced to 1, an omitted step is 1); the expansion of every parsed Pattern
\* reaches its end after finitely many pulls; and a range iterator that has
\* returned None returns None on every later pull.
C13_StepsAndTermination ==
    /\ []StepsAtLeastOne
    /\ (Parsed ~> (pc = "end"))
    /\ (Iterated ~> (sended >= 1))
    /\ [][(Iterated /\ sended >= 1) =>
             (sout' = sout /\ sit' = sit /\ sended' = sended + 1)]_vars

\* The expansion of a Range whose step was written 0, pulled to its end.
C13_Witness ==
    /\ mode = "expr" /\ pc = "end"
    /\ EndsWithZeroStep(input)
    /\ Len(Parts) = 1 /\ Parts[1].kind \in {"Int", "Char"} /\ Parts[1].incr = 1
    /\ Len(out) >= 3

-----------------------------------------------------------------------------
(* C14: the whole input must be consumed.                                  *)

\* What the grammar matches of the input: the parts of the longest prefix
\* and the rest it leaves.
Matched == top_parts_from(input, <<>>)

\* C14: parse succeeds only if the grammar consumes the entire input.  When
\* a suffix is left (a closing brace at the top level that closes nothing, a
\* brace group that is never closed) the result is an error and no tree, not
\* the tree of the prefix that matched; and a parsed input followed by a
\* character that cannot be consumed no longer parses.
C14_WholeInput ==
    (mode = "expr" /\ pc # "start") =>
        /\ pc = "failed" <=> (~Matched.ok \/ Matched.rest # <<>>)
        /\ pc = "failed" =>
              expr = <<>> /\ shown = <<>> /\ iter = NoIter /\ out = <<>>
        /\ (NoRanges /\ ~Scanned.badEscape /\ (Scanned.stray \/ Scanned.open > 0))
              => pc = "failed"
        /\ pc # "failed" =>
              \A c \in {Chr("}"), Chr("{"), Chr("\\")} :
                  try_from(input \o <<c>>) = <<>>

\* A failed parse of an input of which a prefix matched, some parts being
\* parsed, and a closing brace was left.
C14_Witness ==
    /\ mode = "expr" /\ pc = "failed"
    /\ Matched.ok /\ Len(Matched.val) >= 1
    /\ Matched.rest # <<>> /\ Matched.rest[1] = Chr("}")

-----------------------------------------------------------------------------
(* C15: the formatted text parsed again.                                   *)

\* The tree of the text the parsed Expression formats to: <<tree>> or <<>>.
Reparsed == try_from(shown[1])

\* The items of a tree, pulled to the end.
Expansion(tree) == Collect(Expression_into_iter(tree))

\* C15: for every input that parses, the text its tree formats to parses,
\* and the tree of that text has the same expansion (same items, same order,
\* same zero padding) and formats to the same text again.
C15_FormatReparses ==
    (mode = "expr" /\ shown # <<>>) =>
        /\ Reparsed # <<>>
        /\ Expression_fmt(Reparsed[1]) = shown[1]
        /\ Expansion(Reparsed[1]) = Expansion(expr[1])

=============================================================================
